---- MODULE Spec2Model ----
(***************************************************************************)
(* Adaptive SAT practice engine: the multidimensional 2PL ability          *)
(* estimator (sat-irt-model.js, class SATIRTModel) and the contextual      *)
(* bandit that selects the next domain and difficulty                      *)
(* (sat-reinforcement-learning.js, class SATReinforcementLearning).        *)
(*                                                                         *)
(* Numbers.  JavaScript numbers are modelled in fixed point: abilities,    *)
(* probabilities, discriminations, difficulties, rewards and random draws  *)
(* are integers counting thousandths (One = 1.0); epsilon counts           *)
(* millionths.  Response times are whole seconds.  Date.now() is the       *)
(* logical clock `clock`.                                                  *)
(*                                                                         *)
(* Objects.  this.domains and this.armStats are plain JavaScript objects:  *)
(* a lookup obj[key] that misses the object's own keys falls through to    *)
(* Object.prototype, so obj["constructor"] is the (truthy) function        *)
(* Object.  `inherited` holds the properties the handlers have assigned    *)
(* on such an inherited object.                                            *)
(*                                                                         *)
(* Persistence.  localStorage holds the texts written by JSON.stringify    *)
(* and Number.prototype.toString; a text is parsed again when an engine is *)
(* constructed.  `failing` is the set of keys for which setItem currently  *)
(* throws (the quota is exceeded).  `cloud` holds the two Firestore        *)
(* documents of SATFirebaseSync (unnamed/part_000), `inflight` the         *)
(* snapshots of get() calls whose await has not resumed yet.  `peer` is    *)
(* the engine of a second session of the same user.                        *)
(*                                                                         *)
(* Knowledge tracing.  `mastery` is the mastery score and the learn and    *)
(* slip rates of each skill, updated by the simplified Bayesian update     *)
(* quoted in docs/BKT_FIREBASE_SUMMARY.md, with the number of updates and   *)
(* the length of the current run of correct answers.  The parameter fit   *)
(* (trainBKTEM, page bkt-analytics.html) is modelled from its description  *)
(* in BKT_INDIVIDUAL_LEARNING.md: the loop, its two exits and the          *)
(* minimum-data rule are modelled, the numbers an iteration computes are   *)
(* any parameters of the valid band.                                       *)
(***************************************************************************)
EXTENDS Integers, Sequences, FiniteSets, TLC

VARIABLES
    domains,          \* SATIRTModel.domains: domain -> {theta, attempts, correct}
    armStats,         \* SATReinforcementLearning.armStats: domain -> arm record
    questionHistory,  \* SATReinforcementLearning.questionHistory
    epsilon,          \* strategies.exploration.epsilon, in millionths
    localStorage,     \* the browser's localStorage entries written by both models
    inherited,        \* properties assigned on objects inherited from Object.prototype
    clock,            \* Date.now(): a logical clock, one tick per handler call
    lastRecommend,    \* arguments and return value of the last recommendQuestions call
    tally,            \* observation only: calls seen since construction or reset
    failing,          \* keys of localStorage for which setItem throws
    cloud,            \* Firestore documents users/{uid}/data/satIRTModel and satRLModel
    inflight,         \* document snapshots fetched by get(), their await not yet resumed
    peer,             \* the engine of a second session of the same user
    mastery,          \* skill -> mastery score and personal rates (knowledge tracing)
    lastQuery         \* the last derived query and the value it returned

vars == <<domains, armStats, questionHistory, epsilon, localStorage, inherited,
          clock, lastRecommend, tally, failing, cloud, inflight, peer, mastery,
          lastQuery>>

\* what the handlers of the two models never write
outside == <<failing, cloud, inflight, peer, mastery, lastQuery>>

(***************************************************************************)
(* Bounds of the model                                                     *)
(***************************************************************************)
\* number of handler calls explored in one run
MaxCalls == 2
\* largest count passed to recommendQuestions
MaxCount == 2
\* number of responses of one long practice session (SpecSession)
MaxSession == 102
\* number of mastery updates explored in one run (SpecMastery)
MaxStreak == 4

(***************************************************************************)
(* Fixed point                                                             *)
(***************************************************************************)
One == 10 * 10 * 10

Max(a, b) == IF a >= b THEN a ELSE b
Min(a, b) == IF a <= b THEN a ELSE b

\* Math.exp of a non-positive argument: e^-n from a table, e^-r (0 <= r < 1) as
\* the reciprocal of the Taylor polynomial of e^r.
ExpNegInt(n) ==
    LET table == <<1000, 368, 135, 50, 18, 7, 2, 1>>
    IN  IF n + 1 <= Len(table) THEN table[n + 1] ELSE 0

ExpFrac(r) ==
    LET t5 == One + (r \div 5)
        t4 == One + ((r * t5) \div (4 * One))
        t3 == One + ((r * t4) \div (3 * One))
        t2 == One + ((r * t3) \div (2 * One))
    IN  One + ((r * t2) \div One)

ExpNeg(x) ==
    LET n == x \div One
        r == x % One
    IN  (ExpNegInt(n) * One) \div ExpFrac(r)

\* Math.exp(x): for x > 0 the reciprocal of e^-x; a result beyond the fixed-point
\* range stands for a float so large that 1 / (1 + it) rounds to 0.
ExpHuge == One * One * One

Exp(x) ==
    IF x <= 0 THEN ExpNeg(-x)
    ELSE IF ExpNeg(x) = 0 THEN ExpHuge
    ELSE (One * One) \div ExpNeg(x)

(***************************************************************************)
(* SATIRTModel                                                             *)
(***************************************************************************)
\* the keys of this.domains, in insertion order (constructor, lines 19-31)
DomainUniverse ==
    << "Algebra", "Advanced Math", "Problem-Solving and Data Analysis",
       "Geometry and Trigonometry", "Craft and Structure", "Information and Ideas",
       "Expression of Ideas", "Standard English Conventions" >>

\* the model instantiates the first two domains of the universe
DomainOrder == SubSeq(DomainUniverse, 1, 2)

Domains == { DomainOrder[i] : i \in 1..Len(DomainOrder) }

\* property names every plain object inherits from Object.prototype
ObjectPrototypeKeys == { "constructor" }

defaultDiscrimination == 1000
learningRate == 300
ThetaMin == -3000
ThetaMax == 3000

difficultyMap == [ E |-> -1000, M |-> 0, H |-> 1500 ]

FreshDomain == [ theta |-> 0, attempts |-> 0, correct |-> 0 ]

\* `obj[key]` is truthy: an own entry (always an object here) or an inherited one
Truthy(obj, key) == key \in DOMAIN obj \/ key \in ObjectPrototypeKeys

\* this.difficultyMap[difficulty] || 0
DifficultyB(difficulty) ==
    IF difficulty \in DOMAIN difficultyMap THEN difficultyMap[difficulty] ELSE 0

probabilityCorrect(theta, discrimination, difficulty) ==
    LET exponent == (-(discrimination * (theta - difficulty))) \div One
    IN  (One * One) \div (One + Exp(exponent))

\* faulty variant: the lower bound alone, Math.max(-3, newTheta)
BoundThetaBelowOnly(newTheta) == Max(ThetaMin, newTheta)

\* Math.max(-3, Math.min(3, newTheta))
BoundTheta(newTheta) == Max(ThetaMin, Min(ThetaMax, newTheta))

\* faulty variant: the gradient of a correct answer, whatever the answer
NewThetaOutcomeIgnored(currentTheta, correct, difficulty, discrimination) ==
    LET b == DifficultyB(difficulty)
        p == probabilityCorrect(currentTheta, discrimination, b)
        gradient == (discrimination * (One - p)) \div One
    IN  BoundTheta(currentTheta + ((learningRate * gradient) \div One))

\* the new theta of updateAbility, lines 73-86
NewTheta(currentTheta, correct, difficulty, discrimination) ==
    LET b == DifficultyB(difficulty)
        p == probabilityCorrect(currentTheta, discrimination, b)
        gradient == (discrimination * ((IF correct THEN One ELSE 0) - p)) \div One
        newTheta == currentTheta + ((learningRate * gradient) \div One)
    IN  BoundTheta(newTheta)

\* faulty variant: attempts++ slipped into an else branch
UpdatedDomainAttemptsInElse(data, correct, difficulty, discrimination) ==
    [ theta    |-> NewTheta(data.theta, correct, difficulty, discrimination),
      attempts |-> IF correct THEN data.attempts ELSE data.attempts + 1,
      correct  |-> IF correct THEN data.correct + 1 ELSE data.correct ]

\* the record of a known domain after updateAbility, lines 86-90
UpdatedDomain(data, correct, difficulty, discrimination) ==
    [ theta    |-> NewTheta(data.theta, correct, difficulty, discrimination),
      attempts |-> data.attempts + 1,
      correct  |-> IF correct THEN data.correct + 1 ELSE data.correct ]

\* faulty variant: the response is counted on every domain
DomainsAfterUpdateEverywhere(doms, domain, correct, difficulty, discrimination) ==
    IF domain \in DOMAIN doms
    THEN [ d \in DOMAIN doms |->
             IF d = domain
             THEN UpdatedDomain(doms[d], correct, difficulty, discrimination)
             ELSE [ doms[d] EXCEPT !.attempts = @ + 1 ] ]
    ELSE doms

\* this.domains after updateAbility(domain, ...)
DomainsAfterUpdate(doms, domain, correct, difficulty, discrimination) ==
    IF domain \in DOMAIN doms
    THEN [ doms EXCEPT ![domain] =
               UpdatedDomain(doms[domain], correct, difficulty, discrimination) ]
    ELSE doms

\* updateAbility on an inherited object (domains["constructor"] is Object): theta is
\* read as undefined, every computed number is NaN, and NaN is what gets assigned.
AbilityFieldsSet(correct) ==
    IF correct THEN { "theta", "attempts", "correct" } ELSE { "theta", "attempts" }

InheritedAfterUpdate(inh, doms, domain, correct) ==
    IF domain \notin DOMAIN doms /\ domain \in ObjectPrototypeKeys
    THEN [ inh EXCEPT ![domain] = @ \cup AbilityFieldsSet(correct) ]
    ELSE inh

\* getAbility: this.domains[domain]?.theta || 0  (undefined and NaN both give 0)
getAbility(domain) ==
    IF domain \in DOMAIN domains THEN domains[domain].theta ELSE 0

(***************************************************************************)
(* Texts.  A number is printed as its sign and the decimal digits of its    *)
(* fixed-point value (the position of the decimal point is fixed by the     *)
(* unit, so it is not printed).  NaN is the value parseFloat gives to a     *)
(* text that does not start with a number; it is below every number.        *)
(***************************************************************************)
NaN == 0 - 2^30

Digit == << "0", "1", "2", "3", "4", "5", "6", "7", "8", "9" >>

IsDigit(c) == \E d \in 1..Len(Digit) : Digit[d] = c

DigitValue(c) == (CHOOSE d \in 1..Len(Digit) : Digit[d] = c) - 1

RECURSIVE DigitsOf(_)
DigitsOf(n) ==
    IF n < Len(Digit) THEN << Digit[n + 1] >>
    ELSE Append(DigitsOf(n \div Len(Digit)), Digit[(n % Len(Digit)) + 1])

\* faulty variant: the sign is not printed
NumberToStringUnsigned(n) ==
    IF n = NaN THEN << "N", "a", "N" >>
    ELSE IF n < 0 THEN DigitsOf(0 - n)
    ELSE DigitsOf(n)

\* Number.prototype.toString, and JSON.stringify of a finite number
NumberToString(n) ==
    IF n = NaN THEN << "N", "a", "N" >>
    ELSE IF n < 0 THEN << "-" >> \o DigitsOf(0 - n)
    ELSE DigitsOf(n)

RECURSIVE ParseDigits(_, _, _)
ParseDigits(text, i, acc) ==
    IF i > Len(text) THEN acc
    ELSE IF ~IsDigit(text[i]) THEN acc
    ELSE ParseDigits(text, i + 1, acc * Len(Digit) + DigitValue(text[i]))

\* parseFloat, and JSON.parse of a number: the longest numeric prefix
ParseFloat(text) ==
    LET negative == IF text = <<>> THEN FALSE ELSE text[1] = "-"
        start == IF negative THEN 2 ELSE 1
        numeric == IF start > Len(text) THEN FALSE ELSE IsDigit(text[start])
    IN  IF ~numeric THEN NaN
        ELSE IF negative THEN 0 - ParseDigits(text, start, 0)
        ELSE ParseDigits(text, start, 0)

\* a JSON text: well formed with the members written, or one JSON.parse rejects
JSONText(body) == [ wellFormed |-> TRUE, body |-> body ]

\* a text JSON.parse rejects with a SyntaxError
Garbage == [ wellFormed |-> FALSE, body |-> <<>> ]

\* a text that does not start with a number
GarbageNumber == << "o", "o", "p", "s" >>

\* JSON.stringify of an object of objects of numbers (this.domains, this.armStats)
StringifyObject(obj) ==
    JSONText([ k \in DOMAIN obj |->
                 [ f \in DOMAIN obj[k] |-> NumberToString(obj[k][f]) ] ])

\* JSON.parse of such a text
ParseObject(text) ==
    [ k \in DOMAIN text.body |->
        [ f \in DOMAIN text.body[k] |-> ParseFloat(text.body[k][f]) ] ]

\* JSON.stringify of this.questionHistory: strings and booleans are JSON literals
StringifyHistory(history) ==
    JSONText([ i \in 1..Len(history) |->
                 [ domain |-> history[i].domain,
                   correct |-> history[i].correct,
                   difficulty |-> history[i].difficulty,
                   responseTime |-> NumberToString(history[i].responseTime),
                   reward |-> NumberToString(history[i].reward),
                   timestamp |-> NumberToString(history[i].timestamp) ] ])

\* JSON.parse of such a text
ParseHistory(text) ==
    [ i \in 1..Len(text.body) |->
        [ domain |-> text.body[i].domain,
          correct |-> text.body[i].correct,
          difficulty |-> text.body[i].difficulty,
          responseTime |-> ParseFloat(text.body[i].responseTime),
          reward |-> ParseFloat(text.body[i].reward),
          timestamp |-> ParseFloat(text.body[i].timestamp) ] ]

(***************************************************************************)
(* localStorage: an entry is <<>> when absent (getItem gives null),         *)
(* <<text>> when written.                                                   *)
(***************************************************************************)
StorageKeys == { "sat_irt_model", "sat_rl_arms", "sat_rl_history", "sat_rl_epsilon" }

EmptyStorage ==
    [ sat_irt_model |-> <<>>, sat_rl_arms |-> <<>>,
      sat_rl_history |-> <<>>, sat_rl_epsilon |-> <<>> ]

\* localStorage.setItem that does not throw
SetItem(store, key, text) == [ store EXCEPT ![key] = << text >> ]

\* faulty variant: saveToStorage without its try/catch, the exception of setItem
\* leaves the method
TrySaveIRTUncaught(store, doms) ==
    IF "sat_irt_model" \in failing
    THEN [ store |-> store, escaped |-> TRUE ]
    ELSE [ store |-> SetItem(store, "sat_irt_model", StringifyObject(doms)),
           escaped |-> FALSE ]

\* SATIRTModel.saveToStorage: the store it leaves, and whether an exception leaves
\* the method (the catch block logs and returns)
TrySaveIRT(store, doms) ==
    IF "sat_irt_model" \in failing
    THEN [ store |-> store, escaped |-> FALSE ]
    ELSE [ store |-> SetItem(store, "sat_irt_model", StringifyObject(doms)),
           escaped |-> FALSE ]

SaveIRT(store, doms) == TrySaveIRT(store, doms).store

\* SATReinforcementLearning.saveToStorage: three setItem calls in one try block, the
\* first that throws ends the block; the catch block logs and returns
SaveRL(store, arms, history, eps) ==
    LET armsWritten == SetItem(store, "sat_rl_arms", StringifyObject(arms))
        historyWritten ==
            SetItem(armsWritten, "sat_rl_history", StringifyHistory(history))
        epsilonWritten ==
            SetItem(historyWritten, "sat_rl_epsilon", NumberToString(eps))
    IN  IF "sat_rl_arms" \in failing THEN store
        ELSE IF "sat_rl_history" \in failing THEN armsWritten
        ELSE IF "sat_rl_epsilon" \in failing THEN historyWritten
        ELSE epsilonWritten

\* for (const [domain, data] of Object.entries(loaded))
\*     if (this.domains[domain]) this.domains[domain] = data
MergeDomains(doms, loaded) ==
    [ d \in (DOMAIN doms) \cup { k \in DOMAIN loaded : Truthy(doms, k) } |->
        IF d \in DOMAIN loaded THEN loaded[d] ELSE doms[d] ]

\* SATIRTModel.loadFromStorage on the domains the constructor made
LoadIRT(doms, store) ==
    LET stored == store.sat_irt_model
    IN  IF stored = <<>> THEN doms
        ELSE IF ~stored[1].wellFormed THEN doms
        ELSE MergeDomains(doms, ParseObject(stored[1]))

\* SATReinforcementLearning.loadFromStorage on the state the constructor made: one
\* try block, the first JSON.parse that throws ends it
LoadRL(rl, store) ==
    LET arms == store.sat_rl_arms
        history == store.sat_rl_history
        eps == store.sat_rl_epsilon
        armsBad == IF arms = <<>> THEN FALSE ELSE ~arms[1].wellFormed
        historyBad == IF history = <<>> THEN FALSE ELSE ~history[1].wellFormed
        afterArms ==
            IF arms = <<>> THEN rl
            ELSE [ rl EXCEPT !.armStats = ParseObject(arms[1]) ]
        afterHistory ==
            IF history = <<>> THEN afterArms
            ELSE [ afterArms EXCEPT !.questionHistory = ParseHistory(history[1]) ]
    IN  IF armsBad THEN rl
        ELSE IF historyBad THEN afterArms
        ELSE IF eps = <<>> THEN afterHistory
        ELSE [ afterHistory EXCEPT !.epsilon = ParseFloat(eps[1]) ]

(***************************************************************************)
(* SATReinforcementLearning                                                *)
(***************************************************************************)
Epsilon0 == 150000
DecayNum == 995
DecayDen == 1000
maxHistorySize == 100
WeaknessWeight == 700
PriorAlpha == 1
PriorBeta == 1
SpeedWindow == 120
RewardBase == 700
RewardSpeed == 300

FreshArm ==
    [ pulls |-> 0, rewards |-> 0, alpha |-> PriorAlpha, beta |-> PriorBeta,
      avgReward |-> 0 ]

\* initializeArms: one fresh arm per key of irtModel.domains, other keys kept
initializeArms(arms, doms) ==
    [ d \in (DOMAIN arms) \cup (DOMAIN doms) |->
        IF d \in DOMAIN doms THEN FreshArm ELSE arms[d] ]

\* Math.max(0, 1 - responseTime / 120)
SpeedBonus(responseTime) == Max(0, One - ((responseTime * One) \div SpeedWindow))

\* correct ? (0.7 + 0.3 * speedBonus) : 0
Reward(correct, responseTime) ==
    IF correct THEN RewardBase + ((RewardSpeed * SpeedBonus(responseTime)) \div One)
    ELSE 0

\* faulty variant: the branches are swapped
BetaUpdateSwapped(arm, correct) ==
    IF correct THEN [ arm EXCEPT !.beta = @ + 1 ]
    ELSE [ arm EXCEPT !.alpha = @ + 1 ]

\* faulty variant: the else is lost, beta grows on every response
BetaUpdateNoElse(arm, correct) ==
    IF correct THEN [ arm EXCEPT !.alpha = @ + 1, !.beta = @ + 1 ]
    ELSE [ arm EXCEPT !.beta = @ + 1 ]

\* lines 285-289: the Beta parameters move on the binary outcome alone
BetaUpdate(arm, correct) ==
    IF correct THEN [ arm EXCEPT !.alpha = @ + 1 ]
    ELSE [ arm EXCEPT !.beta = @ + 1 ]

\* faulty variant: the average is taken before the response is counted
ArmAfterUpdateStaleAverage(arm, correct, reward) ==
    LET averaged == [ arm EXCEPT !.avgReward = arm.rewards \div Max(arm.pulls, 1) ]
        pulled == [ averaged EXCEPT !.pulls = @ + 1, !.rewards = @ + reward ]
    IN  BetaUpdate(pulled, correct)

\* lines 280-289, on an own arm
ArmAfterUpdate(arm, correct, reward) ==
    LET pulled == [ arm EXCEPT !.pulls = @ + 1, !.rewards = @ + reward ]
        averaged == [ pulled EXCEPT !.avgReward = pulled.rewards \div pulled.pulls ]
    IN  BetaUpdate(averaged, correct)

\* lines 280-289, on an inherited object: every read is undefined, every write NaN
ArmFieldsSet(correct) ==
    { "pulls", "rewards", "avgReward" } \cup (IF correct THEN { "alpha" } ELSE { "beta" })

\* lines 292-299
HistoryEvent(domain, correct, difficulty, responseTime, now) ==
    [ domain |-> domain, correct |-> correct, difficulty |-> difficulty,
      responseTime |-> responseTime, reward |-> Reward(correct, responseTime),
      timestamp |-> now ]

\* faulty variant: pop() instead of shift(), the newest event is dropped
TrimHistoryPop(history) ==
    IF Len(history) > maxHistorySize THEN SubSeq(history, 1, Len(history) - 1)
    ELSE history

\* lines 302-304: one shift() when the pushed history is over capacity
TrimHistory(history) ==
    IF Len(history) > maxHistorySize THEN Tail(history) ELSE history

\* lines 292-304
HistoryAfterPush(history, event) == TrimHistory(Append(history, event))

\* faulty variant: the rate is subtracted from, not multiplied into, epsilon
DecayedEpsilonLinear(eps) == eps - (DecayDen - DecayNum) * One

\* line 246 (NaN times a number is NaN)
DecayedEpsilon(eps) == IF eps = NaN THEN NaN ELSE (eps * DecayNum) \div DecayDen

\* faulty variant: <= in both comparisons
DifficultyForInclusive(theta) ==
    LET targetDifficulty == theta + 500
    IN  IF targetDifficulty <= -500 THEN "E"
        ELSE IF targetDifficulty <= 750 THEN "M"
        ELSE "H"

\* selectDifficulty, lines 178-183, on the ability it read
DifficultyFor(theta) ==
    LET targetDifficulty == theta + 500
    IN  IF targetDifficulty < -500 THEN "E"
        ELSE IF targetDifficulty < 750 THEN "M"
        ELSE "H"

selectDifficulty(domain) == DifficultyFor(getAbility(domain))

(***************************************************************************)
(* Random numbers: Math.random() and the Beta samples are drawn from grids  *)
(***************************************************************************)
\* values of Math.random(), in [0, 1)
RandomGrid == { 0, 500, 900 }
\* values of betaSample(alpha, beta), in (0, 1)
BetaGrid == { 100, 500, 900 }

\* arr[Math.floor(r * arr.length)]: index 0 of an empty array reads undefined
RandomElementOf(arr, r) ==
    IF Len(arr) = 0 THEN "undefined" ELSE arr[((r * Len(arr)) \div One) + 1]

\* Object.keys(this.armStats): the arms in insertion order
ArmOrder == SelectSeq(DomainUniverse, LAMBDA d : d \in DOMAIN armStats)

\* lines 147-152: 1 - (theta + 3) / 6, weighted
WeaknessBoost(theta) == One - (((theta - ThetaMin) * One) \div (ThetaMax - ThetaMin))

BoostedSample(domain, sample) ==
    sample + ((WeaknessWeight * WeaknessBoost(getAbility(domain))) \div One)

\* faulty variant: >= in the comparison, the last of the largest is kept
RECURSIVE ReduceBestLast(_, _, _, _)
ReduceBestLast(order, samples, i, best) ==
    IF i > Len(order) THEN best
    ELSE LET value == BoostedSample(order[i], samples[order[i]])
         IN  ReduceBestLast(order, samples, i + 1,
                            IF best.domain = "null" \/ value >= best.value
                            THEN [ domain |-> order[i], value |-> value ]
                            ELSE best)

\* lines 156-159: reduce keeps the first entry whose value is strictly the largest
RECURSIVE ReduceBest(_, _, _, _)
ReduceBest(order, samples, i, best) ==
    IF i > Len(order) THEN best
    ELSE LET value == BoostedSample(order[i], samples[order[i]])
         IN  ReduceBest(order, samples, i + 1,
                        IF best.domain = "null" \/ value > best.value
                        THEN [ domain |-> order[i], value |-> value ]
                        ELSE best)

\* the Thompson-sampling branch of selectDomain on the given Beta samples
ThompsonChoice(samples) ==
    ReduceBest(ArmOrder, samples, 1, [ domain |-> "null", value |-> 0 ]).domain

\* every domain selectDomain can return in the current state: the exploration
\* branch needs Math.random() < epsilon, the Thompson branch its complement
SelectDomainOutcomes ==
    { RandomElementOf(ArmOrder, r) :
        r \in { x \in RandomGrid : \E u \in RandomGrid : u * One < epsilon } }
    \cup
    { ThompsonChoice(samples) :
        samples \in { s \in [ DOMAIN armStats -> BetaGrid ] :
                        \E u \in RandomGrid : ~(u * One < epsilon) } }

Question(id, domain, difficulty) ==
    [ questionId |-> id, domain |-> domain, difficulty |-> difficulty ]

\* filterQuestions
filterQuestions(questions, domain, difficulty) ==
    SelectSeq(questions, LAMBDA q : q.domain = domain /\ q.difficulty = difficulty)

\* faulty variant: the used ids are not filtered out
AvailableUnfiltered(candidates, recommendations) == candidates

\* lines 227-228: the candidates whose id is not yet in the batch
Available(candidates, recommendations) ==
    LET usedIds == { recommendations[j].questionId : j \in 1..Len(recommendations) }
    IN  SelectSeq(candidates, LAMBDA q : q.questionId \notin usedIds)

\* faulty variant: when every candidate is already in the batch, one of them is
\* pushed again
DrawOneRepeating(allQuestions, recommendations, draw) ==
    LET domain == draw[1]
        difficulty == selectDifficulty(domain)
        candidates == filterQuestions(allQuestions, domain, difficulty)
        available == Available(candidates, recommendations)
    IN  IF Len(candidates) > 0
        THEN Append(recommendations,
                    RandomElementOf(IF Len(available) > 0 THEN available
                                    ELSE candidates, draw[2]))
        ELSE recommendations

\* one iteration of the loop of recommendQuestions, lines 216-243
DrawOne(allQuestions, recommendations, draw) ==
    LET domain == draw[1]
        difficulty == selectDifficulty(domain)
        candidates == filterQuestions(allQuestions, domain, difficulty)
        available == Available(candidates, recommendations)
    IN  IF Len(candidates) > 0 /\ Len(available) > 0
        THEN Append(recommendations, RandomElementOf(available, draw[2]))
        ELSE recommendations

\* the loop of recommendQuestions: draws[i] is the domain and the random number of
\* iteration i
RECURSIVE RecommendLoop(_, _, _, _)
RecommendLoop(allQuestions, draws, i, recommendations) ==
    IF i > Len(draws) THEN recommendations
    ELSE RecommendLoop(allQuestions, draws, i + 1,
                       DrawOne(allQuestions, recommendations, draws[i]))

(***************************************************************************)
(* Inputs                                                                  *)
(***************************************************************************)
\* domain names a caller may pass: the configured ones, one that exists nowhere,
\* and the names every object inherits
DomainInputs == Domains \cup { "Unknown" } \cup ObjectPrototypeKeys
\* the <<difficulty, responseTime>> pairs of the responses delivered to updateModel:
\* every label and every response time occurs
ResponseInputs == { <<"M", 0>>, <<"E", -60>>, <<"H", 60>>, <<"X", 150>> }
\* the <<difficulty, discrimination>> pairs of the direct updateAbility calls
AbilityInputs ==
    { <<"M", defaultDiscrimination>>, <<"E", 12 * One>>, <<"H", 12 * One>>,
      <<"X", 12 * One>> }

\* question pools: none, and one with a repeated id inside a (domain, difficulty)
\* pair and an id shared by two pairs
PoolMixed ==
    << Question(1, DomainOrder[1], "M"), Question(2, DomainOrder[1], "M"),
       Question(1, DomainOrder[1], "M"), Question(2, DomainOrder[2], "M"),
       Question(3, DomainOrder[2], "M"), Question(4, DomainOrder[1], "H"),
       Question(5, DomainOrder[2], "E") >>

Pools == { <<>>, PoolMixed }

(***************************************************************************)
(* State after construction on an empty localStorage                       *)
(***************************************************************************)
ZeroTally ==
    [ responses |-> 0, recommends |-> 0,
      right |-> [ d \in Domains |-> 0 ], wrong |-> [ d \in Domains |-> 0 ] ]

\* before the first derived query
NoQuery == [ call |-> <<>>, result |-> <<>> ]

\* before the first recommendQuestions call
NoRecommend == [ count |-> 0, pool |-> <<>>, questions |-> <<>> ]

\* Firestore before the first sync: neither document exists
EmptyCloud == [ satIRTModel |-> <<>>, satRLModel |-> <<>> ]

\* no get() is waiting to resume
NoRequest == [ satIRTModel |-> <<>>, satRLModel |-> <<>> ]

\* the engine a second session constructs on an empty localStorage
FreshSession ==
    [ domains |-> [ d \in Domains |-> FreshDomain ],
      armStats |-> [ d \in Domains |-> FreshArm ],
      questionHistory |-> <<>>,
      epsilon |-> Epsilon0,
      responses |-> 0 ]

\* knowledge tracing defaults: P(L0) = 0.4, P(T) = 0.15, P(S) = 0.1, P(G) = 0.2
PriorMastery == 400
DefaultLearn == 150
DefaultSlip == 100
DefaultGuess == 200
\* reviews a user needs over all skills, and on one skill, for that skill to be fitted
MinTotalReviews == 20
MinSkillReviews == 5
\* trainBKTEM(observations, maxIterations = 20); the convergence threshold 0.001
maxIterations == 20
tolerance == 1

Skills == { "skill-1", "skill-2" }

DefaultMastery ==
    [ s \in Skills |->
        [ score |-> PriorMastery, learn |-> DefaultLearn, slip |-> DefaultSlip,
          calls |-> 0, streak |-> 0, prior |-> PriorMastery,
          guess |-> DefaultGuess, fitting |-> FALSE, limit |-> 0,
          iterations |-> 0, change |-> 0 ] ]

Init ==
    /\ domains = [ d \in Domains |-> FreshDomain ]
    /\ armStats = [ d \in Domains |-> FreshArm ]
    /\ questionHistory = <<>>
    /\ epsilon = Epsilon0
    /\ localStorage = EmptyStorage
    /\ inherited = [ k \in ObjectPrototypeKeys |-> {} ]
    /\ clock = 0
    /\ lastRecommend = NoRecommend
    /\ tally = ZeroTally
    /\ failing = {}
    /\ cloud = EmptyCloud
    /\ inflight = NoRequest
    /\ peer = FreshSession
    /\ lastQuery = NoQuery
    /\ mastery = DefaultMastery

(***************************************************************************)
(* Handlers                                                                *)
(***************************************************************************)
\* SATIRTModel.updateAbility called directly
UpdateAbility(domain, correct, difficulty, discrimination) ==
    /\ clock' = clock + 1
    /\ IF Truthy(domains, domain)
       THEN /\ domains' = DomainsAfterUpdate(domains, domain, correct, difficulty,
                                             discrimination)
            /\ inherited' = InheritedAfterUpdate(inherited, domains, domain, correct)
            /\ localStorage' = SaveIRT(localStorage, domains')
       ELSE UNCHANGED <<domains, inherited, localStorage>>
    /\ UNCHANGED <<armStats, questionHistory, epsilon, lastRecommend, tally>>

\* the observation kept of one recorded response
TallyAfterResponse(t, domain, correct) ==
    IF domain \notin Domains THEN t
    ELSE [ t EXCEPT !.responses = @ + 1,
                    !.right[domain] = IF correct THEN @ + 1 ELSE @,
                    !.wrong[domain] = IF correct THEN @ ELSE @ + 1 ]

\* SATReinforcementLearning.updateModel
UpdateModel(domain, correct, difficulty, responseTime) ==
    /\ clock' = clock + 1
    /\ UNCHANGED <<epsilon, lastRecommend>>
    /\ IF Truthy(armStats, domain)
       THEN LET irtKnown == Truthy(domains, domain)
                reward == Reward(correct, responseTime)
                event == HistoryEvent(domain, correct, difficulty, responseTime, clock)
                afterIRT == IF irtKnown
                            THEN InheritedAfterUpdate(inherited, domains, domain, correct)
                            ELSE inherited
                irtSaved == IF irtKnown THEN TrySaveIRT(localStorage, domains')
                            ELSE [ store |-> localStorage, escaped |-> FALSE ]
            IN  /\ domains' = IF irtKnown
                              THEN DomainsAfterUpdate(domains, domain, correct,
                                                      difficulty, defaultDiscrimination)
                              ELSE domains
                /\ tally' = IF domain \in DOMAIN armStats
                            THEN TallyAfterResponse(tally, domain, correct)
                            ELSE tally
                /\ IF irtSaved.escaped
                   THEN \* an exception leaving irtModel.updateAbility ends updateModel
                        /\ inherited' = afterIRT
                        /\ localStorage' = irtSaved.store
                        /\ UNCHANGED <<armStats, questionHistory>>
                   ELSE /\ armStats' = IF domain \in DOMAIN armStats
                                       THEN [ armStats EXCEPT ![domain] =
                                                  ArmAfterUpdate(@, correct, reward) ]
                                       ELSE armStats
                        /\ inherited' = IF domain \in DOMAIN armStats THEN afterIRT
                                        ELSE [ afterIRT EXCEPT ![domain] =
                                                   @ \cup ArmFieldsSet(correct) ]
                        /\ questionHistory' = HistoryAfterPush(questionHistory, event)
                        /\ localStorage' = SaveRL(irtSaved.store, armStats',
                                                  questionHistory', epsilon)
       ELSE UNCHANGED <<domains, armStats, inherited, questionHistory, localStorage,
                        tally>>

\* SATReinforcementLearning.recommendQuestions; draws[i] = <<domain selected, random
\* number of the pick>> of iteration i
RecommendQuestions(allQuestions, count, draws) ==
    /\ clock' = clock + 1
    /\ lastRecommend' = [ count |-> count,
                          pool |-> allQuestions,
                          questions |-> RecommendLoop(allQuestions, draws, 1, <<>>) ]
    /\ epsilon' = DecayedEpsilon(epsilon)
    /\ tally' = [ tally EXCEPT !.recommends = @ + 1 ]
    /\ UNCHANGED <<domains, armStats, questionHistory, localStorage, inherited>>

\* SATIRTModel.reset
ResetIRT ==
    /\ clock' = clock + 1
    /\ domains' = [ d \in DOMAIN domains |-> FreshDomain ]
    /\ localStorage' = SaveIRT(localStorage, domains')
    /\ UNCHANGED <<armStats, questionHistory, epsilon, inherited, lastRecommend, tally>>

\* SATReinforcementLearning.reset
ResetRL ==
    /\ clock' = clock + 1
    /\ armStats' = initializeArms(armStats, domains)
    /\ questionHistory' = <<>>
    /\ epsilon' = Epsilon0
    /\ localStorage' = SaveRL(localStorage, armStats', questionHistory', epsilon')
    /\ tally' = ZeroTally
    /\ UNCHANGED <<domains, inherited, lastRecommend>>

(***************************************************************************)
(* Specification: any calls, in any order, MaxCalls of them                 *)
(***************************************************************************)
DoUpdateAbility ==
    /\ clock < MaxCalls
    /\ \E domain \in DomainInputs, correct \in BOOLEAN, input \in AbilityInputs :
           UpdateAbility(domain, correct, input[1], input[2])
    /\ UNCHANGED outside

DoUpdateModel ==
    /\ clock < MaxCalls
    /\ \E domain \in DomainInputs, correct \in BOOLEAN, input \in ResponseInputs :
           UpdateModel(domain, correct, input[1], input[2])
    /\ UNCHANGED outside

DoRecommend ==
    /\ clock < MaxCalls
    /\ \E allQuestions \in Pools, count \in 0..MaxCount :
           \E draws \in [ 1..count -> SelectDomainOutcomes \X RandomGrid ] :
               RecommendQuestions(allQuestions, count, draws)
    /\ UNCHANGED outside

DoResetIRT == clock < MaxCalls /\ ResetIRT /\ UNCHANGED outside

DoResetRL == clock < MaxCalls /\ ResetRL /\ UNCHANGED outside

Next ==
    \/ DoUpdateAbility
    \/ DoUpdateModel
    \/ DoRecommend
    \/ DoResetIRT
    \/ DoResetRL

Spec == Init /\ [][Next]_vars

\* a fresh engine that receives responses and resets of the selection policy only
NextPolicy ==
    \/ DoUpdateModel
    \/ DoResetRL

SpecPolicy == Init /\ [][NextPolicy]_vars

(***************************************************************************)
(* Specification of one long practice session: the learner's first         *)
(* response is any response on a configured domain, and every later one    *)
(* repeats it (same domain, outcome, difficulty and response time), for    *)
(* MaxSession responses: more than the history holds.                      *)
(***************************************************************************)
SessionResponse ==
    /\ clock < MaxSession
    /\ \E domain \in Domains, correct \in BOOLEAN, input \in ResponseInputs :
           /\ IF questionHistory = <<>> THEN TRUE
              ELSE LET last == questionHistory[Len(questionHistory)]
                   IN  /\ last.domain = domain
                       /\ last.correct = correct
                       /\ last.difficulty = input[1]
                       /\ last.responseTime = input[2]
           /\ UpdateModel(domain, correct, input[1], input[2])
    /\ UNCHANGED outside

NextSession == SessionResponse

SpecSession == Init /\ [][NextSession]_vars

(***************************************************************************)
(* Specification of a learner profile: each domain has been updated once    *)
(* by updateAbility, which (the discrimination being any positive number)   *)
(* can leave any ability of [-3, 3]; then questions are recommended.        *)
(***************************************************************************)
\* abilities around the thresholds of selectDifficulty and at the bounds
ThetaGrid == { -3000, -1001, -1000, -999, -1, 1, 249, 250, 251, 3000 }

\* a domain after one response: right if the ability went up, wrong if down
ProfileRecord(theta) ==
    [ theta |-> theta, attempts |-> 1, correct |-> IF theta > 0 THEN 1 ELSE 0 ]

InitProfile ==
    /\ domains \in [ Domains -> { ProfileRecord(t) : t \in ThetaGrid } ]
    /\ armStats = [ d \in Domains |-> FreshArm ]
    /\ questionHistory = <<>>
    /\ epsilon = Epsilon0
    /\ failing = {}
    /\ localStorage = SaveIRT(EmptyStorage, domains)
    /\ inherited = [ k \in ObjectPrototypeKeys |-> {} ]
    /\ clock = Cardinality(Domains)
    /\ lastRecommend = NoRecommend
    /\ tally = ZeroTally
    /\ cloud = EmptyCloud
    /\ inflight = NoRequest
    /\ peer = FreshSession
    /\ lastQuery = NoQuery
    /\ mastery = DefaultMastery

ProfileRecommend ==
    /\ tally.recommends = 0
    /\ \E allQuestions \in Pools, count \in 0..MaxCount :
           \E draws \in [ 1..count -> SelectDomainOutcomes \X RandomGrid ] :
               RecommendQuestions(allQuestions, count, draws)
    /\ UNCHANGED outside

NextProfile == ProfileRecommend

SpecProfile == InitProfile /\ [][NextProfile]_vars

(***************************************************************************)
(* Specification of one ability step: from any profile (a fresh domain      *)
(* included) one direct updateAbility call.                                 *)
(***************************************************************************)
InitSteps ==
    /\ domains \in [ Domains ->
                       { ProfileRecord(t) : t \in ThetaGrid } \cup { FreshDomain } ]
    /\ armStats = [ d \in Domains |-> FreshArm ]
    /\ questionHistory = <<>>
    /\ epsilon = Epsilon0
    /\ failing = {}
    /\ localStorage = SaveIRT(EmptyStorage, domains)
    /\ inherited = [ k \in ObjectPrototypeKeys |-> {} ]
    /\ clock = 0
    /\ lastRecommend = NoRecommend
    /\ tally = ZeroTally
    /\ cloud = EmptyCloud
    /\ inflight = NoRequest
    /\ peer = FreshSession
    /\ lastQuery = NoQuery
    /\ mastery = DefaultMastery

StepUpdate ==
    /\ clock = 0
    /\ \E domain \in Domains, correct \in BOOLEAN, input \in AbilityInputs :
           UpdateAbility(domain, correct, input[1], input[2])
    /\ UNCHANGED outside

NextSteps == StepUpdate

SpecSteps == InitSteps /\ [][NextSteps]_vars

(***************************************************************************)
(* Construction on an existing localStorage, and the Firestore sync         *)
(***************************************************************************)
\* new SATIRTModel(): the eight fresh domains, then loadFromStorage
ConstructedDomains(store) == LoadIRT([ d \in Domains |-> FreshDomain ], store)

\* new SATReinforcementLearning(satIRTModel): fresh arms for the domains of the
\* ability model, an empty history, then loadFromStorage
ConstructedRL(doms, store) ==
    LoadRL([ armStats |-> initializeArms(<<>>, doms),
             questionHistory |-> <<>>,
             epsilon |-> Epsilon0 ], store)

\* the page is loaded again: both models are constructed on the store as it is
Reload ==
    /\ domains' = ConstructedDomains(localStorage)
    /\ LET rl == ConstructedRL(domains', localStorage)
       IN  /\ armStats' = rl.armStats
           /\ questionHistory' = rl.questionHistory
           /\ epsilon' = rl.epsilon
    /\ inherited' = [ k \in ObjectPrototypeKeys |-> {} ]
    /\ lastRecommend' = NoRecommend
    /\ tally' = ZeroTally
    /\ inflight' = NoRequest
    /\ UNCHANGED <<localStorage, clock, failing, cloud, peer, mastery, lastQuery>>

\* the engine of this session and the responses it has recorded
ThisSession ==
    [ domains |-> domains, armStats |-> armStats,
      questionHistory |-> questionHistory, epsilon |-> epsilon,
      responses |-> tally.responses ]

\* after practising, the user opens the application on a second device: both
\* models are constructed on that device's empty localStorage; the engine left
\* behind lives on as `peer`
OpenOnOtherDevice ==
    /\ tally.responses > 0
    /\ peer = FreshSession
    /\ lastQuery = NoQuery
    /\ peer' = ThisSession
    /\ localStorage' = EmptyStorage
    /\ domains' = ConstructedDomains(localStorage')
    /\ LET rl == ConstructedRL(domains', localStorage')
       IN  /\ armStats' = rl.armStats
           /\ questionHistory' = rl.questionHistory
           /\ epsilon' = rl.epsilon
    /\ inherited' = [ k \in ObjectPrototypeKeys |-> {} ]
    /\ lastRecommend' = NoRecommend
    /\ tally' = ZeroTally
    /\ inflight' = NoRequest
    /\ UNCHANGED <<clock, failing, cloud, mastery, lastQuery>>

\* the document saveIRTModel sets (timestamp and summary are never read back)
IRTDocument(doms) == [ domains |-> doms ]

\* the document saveRLModel sets: the history itself is not part of it
RLDocument(arms, eps, history) ==
    [ armStats |-> arms, epsilon |-> eps, questionHistoryCount |-> Len(history) ]

\* syncAll: saveIRTModel and saveRLModel export the engine in the same turn and
\* set one document each
SyncAll ==
    /\ cloud' = [ satIRTModel |-> << IRTDocument(domains) >>,
                  satRLModel |-> << RLDocument(armStats, epsilon, questionHistory) >> ]
    /\ UNCHANGED <<domains, armStats, questionHistory, epsilon, localStorage,
                   inherited, clock, lastRecommend, tally, failing, inflight, peer,
                   mastery, lastQuery>>

\* loadAll: loadIRTModel and loadRLModel each call get() and await the snapshot
\* (<<>> when the document does not exist)
LoadAll ==
    /\ inflight' = [ satIRTModel |-> << cloud.satIRTModel >>,
                     satRLModel |-> << cloud.satRLModel >> ]
    /\ UNCHANGED <<domains, armStats, questionHistory, epsilon, localStorage,
                   inherited, clock, lastRecommend, tally, failing, cloud, peer,
                   mastery, lastQuery>>

\* loadIRTModel after its await, lines 142-155
LoadIRTModelResume ==
    /\ inflight.satIRTModel # <<>>
    /\ inflight' = [ inflight EXCEPT !.satIRTModel = <<>> ]
    /\ LET doc == inflight.satIRTModel[1]
       IN  IF doc # <<>>
           THEN /\ domains' = MergeDomains(domains, doc[1].domains)
                /\ localStorage' = SaveIRT(localStorage, domains')
           ELSE UNCHANGED <<domains, localStorage>>
    /\ UNCHANGED <<armStats, questionHistory, epsilon, inherited, clock,
                   lastRecommend, tally, failing, cloud, peer, mastery, lastQuery>>

\* loadRLModel after its await, lines 180-190
LoadRLModelResume ==
    /\ inflight.satRLModel # <<>>
    /\ inflight' = [ inflight EXCEPT !.satRLModel = <<>> ]
    /\ LET doc == inflight.satRLModel[1]
       IN  IF doc # <<>>
           THEN /\ armStats' = doc[1].armStats
                /\ epsilon' = doc[1].epsilon
                /\ localStorage' = SaveRL(localStorage, armStats', questionHistory,
                                          epsilon')
           ELSE UNCHANGED <<armStats, epsilon, localStorage>>
    /\ UNCHANGED <<domains, questionHistory, inherited, clock, lastRecommend, tally,
                   failing, cloud, peer, mastery, lastQuery>>

(***************************************************************************)
(* Specification of snapshots: responses are recorded and the page is       *)
(* loaded again; the first device syncs its engine to Firestore, the user   *)
(* moves to a second device, and that device loads the documents.           *)
(* MaxCalls responses are recorded in one run.                              *)
(***************************************************************************)
\* the responses of these runs: one wrong, one right, on different domains
SnapshotResponses ==
    { << DomainOrder[2], FALSE, "H", 60 >>, << DomainOrder[1], TRUE, "M", 30 >> }

SnapshotRespond ==
    /\ clock < MaxCalls
    /\ \E r \in SnapshotResponses : UpdateModel(r[1], r[2], r[3], r[4])
    /\ UNCHANGED outside

FirstDeviceSync == peer = FreshSession /\ SyncAll

SecondDeviceLoad == peer # FreshSession /\ LoadAll

NextSnapshot ==
    \/ SnapshotRespond
    \/ Reload
    \/ FirstDeviceSync
    \/ OpenOnOtherDevice
    \/ SecondDeviceLoad
    \/ LoadIRTModelResume
    \/ LoadRLModelResume

SpecSnapshot == Init /\ [][NextSnapshot]_vars

(***************************************************************************)
(* Specification of the Firestore sync on one device: responses, syncAll    *)
(* and loadAll in any order, the continuations of loadAll whenever their    *)
(* snapshots arrive.                                                        *)
(***************************************************************************)
NextCloud ==
    \/ SnapshotRespond
    \/ SyncAll
    \/ LoadAll
    \/ LoadIRTModelResume
    \/ LoadRLModelResume

SpecCloud == Init /\ [][NextCloud]_vars

(***************************************************************************)
(* Specification of a damaged store: responses and recommendations, then    *)
(* an entry of localStorage is removed or its text cut short by something   *)
(* other than the engine, and the page is loaded again.                     *)
(***************************************************************************)
DamageStore ==
    /\ \E key \in StorageKeys, removed \in BOOLEAN :
           localStorage' =
               [ localStorage EXCEPT ![key] =
                   IF removed THEN <<>>
                   ELSE IF key = "sat_rl_epsilon" THEN << GarbageNumber >>
                   ELSE << Garbage >> ]
    /\ UNCHANGED <<domains, armStats, questionHistory, epsilon, inherited, clock,
                   lastRecommend, tally, failing, cloud, inflight, peer, mastery,
                   lastQuery>>

NextDamage ==
    \/ SnapshotRespond
    \/ DoRecommend
    \/ DamageStore
    \/ Reload

SpecDamage == Init /\ [][NextDamage]_vars

(***************************************************************************)
(* Specification of foreign snapshots: the store or the Firestore document  *)
(* holds well-formed content that this engine did not write (another        *)
(* release of the application, another configuration, an edit by hand);     *)
(* responses, resets, reloads and loadAll go on.                            *)
(***************************************************************************)
\* arm statistics with a domain missing, and with a domain this engine lacks
ForeignArms ==
    { [ d \in { DomainUniverse[1] } |-> FreshArm ],
      [ d \in Domains \cup { DomainUniverse[3] } |-> FreshArm ] }

\* abilities stored under a name every object inherits
ForeignDomains == { [ d \in ObjectPrototypeKeys |-> FreshDomain ] }

\* setItem by something other than the engine
StoreForeign ==
    /\ \E entry \in ({ "sat_rl_arms" } \X ForeignArms)
                        \cup ({ "sat_irt_model" } \X ForeignDomains) :
           localStorage' = SetItem(localStorage, entry[1], StringifyObject(entry[2]))
    /\ UNCHANGED <<domains, armStats, questionHistory, epsilon, inherited, clock,
                   lastRecommend, tally, failing, cloud, inflight, peer, mastery,
                   lastQuery>>

\* the satRLModel document set by something other than this engine
CloudForeign ==
    /\ \E arms \in ForeignArms :
           cloud' = [ cloud EXCEPT
                        !.satRLModel = << RLDocument(arms, Epsilon0, <<>>) >> ]
    /\ UNCHANGED <<domains, armStats, questionHistory, epsilon, localStorage,
                   inherited, clock, lastRecommend, tally, failing, inflight, peer,
                   mastery, lastQuery>>

NextForeign ==
    \/ SnapshotRespond
    \/ DoResetRL
    \/ StoreForeign
    \/ Reload
    \/ CloudForeign
    \/ LoadAll
    \/ LoadIRTModelResume
    \/ LoadRLModelResume

SpecForeign == Init /\ [][NextForeign]_vars

(***************************************************************************)
(* Specification of a full store: at any moment the quota of localStorage   *)
(* may be reached for the large history alone or for every key, and may be  *)
(* freed again; responses, ability updates and resets go on.                *)
(***************************************************************************)
QuotaGrid == { {}, { "sat_rl_history" }, StorageKeys }

QuotaChanges ==
    /\ \E keys \in QuotaGrid : failing' = keys
    /\ UNCHANGED <<domains, armStats, questionHistory, epsilon, localStorage,
                   inherited, clock, lastRecommend, tally, cloud, inflight, peer,
                   mastery, lastQuery>>

NextQuota ==
    \/ QuotaChanges
    \/ SnapshotRespond
    \/ DoUpdateAbility
    \/ DoResetIRT
    \/ DoResetRL

SpecQuota == Init /\ [][NextQuota]_vars

(***************************************************************************)
(* Specification of two sessions: the same user has the application open    *)
(* in two tabs of one browser, both constructed on the empty store; each    *)
(* tab holds its own engine and both write the one localStorage.  A handler *)
(* runs to its end before the other tab runs one.                           *)
(***************************************************************************)
\* updateModel in the second tab, on a domain both models know
PeerUpdateModel(domain, correct, difficulty, responseTime) ==
    LET doms == DomainsAfterUpdate(peer.domains, domain, correct, difficulty,
                                   defaultDiscrimination)
        arms == [ peer.armStats EXCEPT ![domain] =
                    ArmAfterUpdate(@, correct, Reward(correct, responseTime)) ]
        history == HistoryAfterPush(peer.questionHistory,
                                    HistoryEvent(domain, correct, difficulty,
                                                 responseTime, clock))
    IN  /\ clock' = clock + 1
        /\ peer' = [ peer EXCEPT !.domains = doms, !.armStats = arms,
                                 !.questionHistory = history,
                                 !.responses = @ + 1 ]
        /\ localStorage' = SaveRL(SaveIRT(localStorage, doms), arms, history,
                                  peer.epsilon)
        /\ UNCHANGED <<domains, armStats, questionHistory, epsilon, inherited,
                       lastRecommend, tally, failing, cloud, inflight, mastery,
                       lastQuery>>

\* updateAbility called directly in the second tab
PeerUpdateAbility(domain, correct, difficulty, discrimination) ==
    LET doms == DomainsAfterUpdate(peer.domains, domain, correct, difficulty,
                                   discrimination)
    IN  /\ clock' = clock + 1
        /\ peer' = [ peer EXCEPT !.domains = doms ]
        /\ localStorage' = SaveIRT(localStorage, doms)
        /\ UNCHANGED <<domains, armStats, questionHistory, epsilon, inherited,
                       lastRecommend, tally, failing, cloud, inflight, mastery,
                       lastQuery>>

PeerRespond ==
    /\ clock < MaxCalls
    /\ \E r \in SnapshotResponses : PeerUpdateModel(r[1], r[2], r[3], r[4])

PeerAbility ==
    /\ clock < MaxCalls
    /\ \E domain \in Domains, correct \in BOOLEAN, input \in AbilityInputs :
           PeerUpdateAbility(domain, correct, input[1], input[2])

NextSessions ==
    \/ SnapshotRespond
    \/ DoUpdateAbility
    \/ PeerRespond
    \/ PeerAbility

SpecSessions == Init /\ [][NextSessions]_vars

(***************************************************************************)
(* Specification of a policy constructed over any topic universe: the      *)
(* irtModel handed to the constructor has any subset of the domains as the  *)
(* keys of its `domains`, the empty one included.  (An irtModel that is      *)
(* undefined, or has no `domains`, makes Object.keys throw in                *)
(* initializeArms: that construction leaves no engine, hence no state.)     *)
(***************************************************************************)
InitUniverse ==
    /\ \E universe \in SUBSET Domains :
           domains = [ d \in universe |-> FreshDomain ]
    /\ armStats = initializeArms(<<>>, domains)
    /\ questionHistory = <<>>
    /\ epsilon = Epsilon0
    /\ localStorage = EmptyStorage
    /\ inherited = [ k \in ObjectPrototypeKeys |-> {} ]
    /\ clock = 0
    /\ lastRecommend = NoRecommend
    /\ tally = ZeroTally
    /\ failing = {}
    /\ cloud = EmptyCloud
    /\ inflight = NoRequest
    /\ peer = FreshSession
    /\ lastQuery = NoQuery
    /\ mastery = DefaultMastery

SpecUniverse == InitUniverse /\ [][Next]_vars

(***************************************************************************)
(* Specification of the mastery update: every skill starts from a mastery   *)
(* and from learn and slip rates anywhere in [0, 1], and is updated by any  *)
(* mix of correct and incorrect answers.                                    *)
(***************************************************************************)
\* faulty variant: the learning rate is added as it is, and nothing is clamped
quickUpdateAdditive(m, correct, learn, slip) ==
    IF correct THEN m + learn ELSE m - slip

\* faulty variant: the two branches are exchanged
quickUpdateSwapped(m, correct, learn, slip) ==
    Max(0, Min(One, IF correct THEN (m * (One - slip)) \div One
                               ELSE m + (((One - m) * learn) \div One)))

\* updateMasteryScore: correct -> m + (1 - m) * learn, else m * (1 - slip),
\* then Math.max(0, Math.min(1, newScore))
quickUpdate(m, correct, learn, slip) ==
    LET newScore == IF correct THEN m + (((One - m) * learn) \div One)
                               ELSE (m * (One - slip)) \div One
    IN  Max(0, Min(One, newScore))

InitMastery ==
    /\ domains = [ d \in Domains |-> FreshDomain ]
    /\ armStats = [ d \in Domains |-> FreshArm ]
    /\ questionHistory = <<>>
    /\ epsilon = Epsilon0
    /\ localStorage = EmptyStorage
    /\ inherited = [ k \in ObjectPrototypeKeys |-> {} ]
    /\ clock = 0
    /\ lastRecommend = NoRecommend
    /\ tally = ZeroTally
    /\ failing = {}
    /\ cloud = EmptyCloud
    /\ inflight = NoRequest
    /\ peer = FreshSession
    /\ lastQuery = NoQuery
    /\ mastery \in [ Skills -> [ score : { 0, PriorMastery, One },
                                 learn : { 0, DefaultLearn, One },
                                 slip : { 0, DefaultSlip, One },
                                 calls : {0}, streak : {0},
                                 prior : {PriorMastery}, guess : {DefaultGuess},
                                 fitting : {FALSE}, limit : {0},
                                 iterations : {0}, change : {0} ] ]

\* one answer on a skill: the score returned by the update becomes the skill's
QuickUpdate(skill, correct) ==
    /\ clock < MaxStreak
    /\ clock' = clock + 1
    /\ mastery' = [ mastery EXCEPT ![skill] =
                      [ @ EXCEPT !.score = quickUpdate(@, correct,
                                                       mastery[skill].learn,
                                                       mastery[skill].slip),
                                 !.calls = @ + 1,
                                 !.streak = IF correct THEN @ + 1 ELSE 0 ] ]
    /\ UNCHANGED <<domains, armStats, questionHistory, epsilon, localStorage,
                   inherited, lastRecommend, tally, failing, cloud, inflight,
                   peer, lastQuery>>

NextMastery ==
    \/ \E skill \in Skills : QuickUpdate(skill, TRUE)
    \/ \E skill \in Skills : QuickUpdate(skill, FALSE)

SpecMastery == InitMastery /\ [][NextMastery]_vars

(***************************************************************************)
(* Specification of the parameter fit.  The user has answered some reviews  *)
(* on each skill (`calls`); "Train BKT Model" fits, one skill after the      *)
(* other, every skill that has enough data.  One step of FitIterate is one  *)
(* E-step/M-step iteration with its convergence check.                      *)
(***************************************************************************)
TotalReviews ==
    LET Sum[S \in SUBSET Skills] ==
            IF S = {} THEN 0
            ELSE LET s == CHOOSE x \in S : TRUE
                 IN  mastery[s].calls + Sum[S \ {s}]
    IN  Sum[Skills]

\* faulty variant: the per-skill minimum is not looked at
EnoughDataForUser(skillReviews, totalReviews) == totalReviews >= MinTotalReviews

\* the minimum-data rule: 20 reviews in total and 5 on the skill
EnoughData(skillReviews, totalReviews) ==
    totalReviews >= MinTotalReviews /\ skillReviews >= MinSkillReviews

\* faulty variant: one iteration too many
ContinueFittingOnceMore(iterations, change, limit) ==
    iterations <= limit /\ ~(change < tolerance)

\* the loop goes on while the iteration count is below maxIterations and the
\* last iteration changed some parameter by the tolerance or more
ContinueFitting(iterations, change, limit) ==
    iterations < limit /\ ~(change < tolerance)

\* parameters an M-step can compute: each in the valid band [0.01, 0.3]
FitGrid ==
    { [ learn |-> DefaultLearn, slip |-> DefaultSlip, guess |-> DefaultGuess ],
      [ learn |-> 10, slip |-> 101, guess |-> 300 ],
      [ learn |-> 300, slip |-> 10, guess |-> 250 ] }

Distance(a, b) == IF a >= b THEN a - b ELSE b - a

\* the reviews the user has on the two skills when training is asked for:
\* none, one short of 20 in total, one short of 5 on a skill, just enough
ReviewCounts ==
    { <<0, 0>>, <<MinSkillReviews, MinTotalReviews - MinSkillReviews - 1>>,
      <<MinSkillReviews - 1, MinTotalReviews - MinSkillReviews + 1>>,
      <<MinSkillReviews, MinTotalReviews - MinSkillReviews>>,
      <<MinTotalReviews, 0>> }

InitTraining ==
    /\ domains = [ d \in Domains |-> FreshDomain ]
    /\ armStats = [ d \in Domains |-> FreshArm ]
    /\ questionHistory = <<>>
    /\ epsilon = Epsilon0
    /\ localStorage = EmptyStorage
    /\ inherited = [ k \in ObjectPrototypeKeys |-> {} ]
    /\ clock = 0
    /\ lastRecommend = NoRecommend
    /\ tally = ZeroTally
    /\ failing = {}
    /\ cloud = EmptyCloud
    /\ inflight = NoRequest
    /\ peer = FreshSession
    /\ lastQuery = NoQuery
    /\ \E reviews \in ReviewCounts :
           mastery = [ s \in Skills |->
                         [ DefaultMastery[s] EXCEPT
                             !.calls = IF s = "skill-1" THEN reviews[1]
                                                        ELSE reviews[2] ] ]

\* trainBKTEM is entered for a skill with enough data: step 1, the defaults
TrainSkill(skill, limit) ==
    /\ \A s \in Skills : ~mastery[s].fitting
    /\ EnoughData(mastery[skill].calls, TotalReviews)
    /\ mastery' = [ mastery EXCEPT ![skill] =
                      [ @ EXCEPT !.learn = DefaultLearn, !.slip = DefaultSlip,
                                 !.guess = DefaultGuess, !.prior = PriorMastery,
                                 !.limit = limit, !.iterations = 0,
                                 !.change = tolerance,
                                 !.fitting = ContinueFitting(0, tolerance, limit) ] ]
    /\ UNCHANGED <<domains, armStats, questionHistory, epsilon, localStorage,
                   inherited, clock, lastRecommend, tally, failing, cloud,
                   inflight, peer, lastQuery>>

\* one iteration: new parameters, the largest change, the convergence check
FitIterate(skill, fit) ==
    LET old == mastery[skill]
        change == Max(Distance(fit.learn, old.learn),
                      Max(Distance(fit.slip, old.slip),
                          Distance(fit.guess, old.guess)))
    IN  /\ old.fitting
        /\ mastery' = [ mastery EXCEPT ![skill] =
                          [ @ EXCEPT !.learn = fit.learn, !.slip = fit.slip,
                                     !.guess = fit.guess,
                                     !.iterations = old.iterations + 1,
                                     !.change = change,
                                     !.fitting =
                                         ContinueFitting(old.iterations + 1,
                                                         change, old.limit) ] ]
        /\ UNCHANGED <<domains, armStats, questionHistory, epsilon, localStorage,
                       inherited, clock, lastRecommend, tally, failing, cloud,
                       inflight, peer, lastQuery>>

TrainBKTModel ==
    \E skill \in Skills, limit \in { 2, maxIterations } : TrainSkill(skill, limit)

TrainBKTEM == \E skill \in Skills, fit \in FitGrid : FitIterate(skill, fit)

NextTraining ==
    \/ TrainBKTModel
    \/ TrainBKTEM

SpecTraining == InitTraining /\ [][NextTraining]_vars /\ WF_vars(TrainBKTEM)

(***************************************************************************)
(* Derived queries.  Each query is an action that records the call and the *)
(* value it returns in `lastQuery`; what it does to the state of the two    *)
(* models is what its statements do.                                        *)
(***************************************************************************)
\* thetaToLevel
thetaToLevel(theta) ==
    IF theta = NaN THEN "Below Basic"
    ELSE IF theta >= 2 * One THEN "Advanced"
    ELSE IF theta >= One THEN "Proficient"
    ELSE IF theta >= 0 THEN "Developing"
    ELSE IF theta >= 0 - One THEN "Basic"
    ELSE "Below Basic"

\* thetaToPercentile: the polynomial approximation of the normal distribution
\* function, coefficients in thousandths, then Math.round(percentile * 100)
thetaToPercentile(theta) ==
    IF theta = NaN THEN NaN
    ELSE LET abs == IF theta < 0 THEN 0 - theta ELSE theta
             t == (One * One) \div (One + ((232 * abs) \div One))
             d == (399 * Exp(0 - (((theta * theta) \div One) \div 2))) \div One
             poly == 319 + ((t * (((t * (1781 + ((t * (((t * 1330) \div One) - 1821))
                                                    \div One))) \div One) - 357))
                            \div One)
             p == (((d * t) \div One) * poly) \div One
             percentile == IF theta > 0 THEN One - p ELSE p
         IN  ((percentile * 100) + (One \div 2)) \div One

\* getDomainStats: null for a key `domains` does not answer; an inherited key
\* answers with an object whose three fields are undefined (the empty sequence)
\* until updateAbility has assigned NaN to them
getDomainStats(doms, inh, domain) ==
    IF domain \in DOMAIN doms
    THEN LET data == doms[domain]
         IN  [ theta |-> data.theta, attempts |-> data.attempts,
               correct |-> data.correct,
               accuracy |-> IF data.attempts > 0
                            THEN (data.correct * 100 * One) \div data.attempts
                            ELSE 0,
               percentile |-> thetaToPercentile(data.theta),
               level |-> thetaToLevel(data.theta) ]
    ELSE IF domain \in ObjectPrototypeKeys
    THEN LET field(f) == IF f \in inh[domain] THEN << NaN >> ELSE <<>>
         IN  [ theta |-> field("theta"), attempts |-> field("attempts"),
               correct |-> field("correct"), accuracy |-> 0,
               percentile |-> NaN, level |-> "Below Basic" ]
    ELSE "null"

\* Array.prototype.sort with the comparator (a, b) => sign * (a.theta - b.theta):
\* stable, an entry goes behind the entries it does not precede
SortedBy(entries, sign) ==
    LET Before(a, b) == sign * (a.theta - b.theta) < 0
        Sorted[n \in 0..Len(entries)] ==
            IF n = 0 THEN <<>>
            ELSE LET sorted == Sorted[n - 1]
                     last == entries[n]
                     keep == Cardinality({ i \in 1..Len(sorted) :
                                             ~Before(last, sorted[i]) })
                 IN  SubSeq(sorted, 1, keep) \o << last >>
                         \o SubSeq(sorted, keep + 1, Len(sorted))
    IN  Sorted[Len(entries)]

\* lines 166-172 and 183-189: the domains with attempts, in insertion order
DomainsWithAttempts(doms, inh) ==
    LET keys == SelectSeq(DomainUniverse,
                          LAMBDA d : d \in DOMAIN doms /\ doms[d].attempts > 0)
    IN  [ i \in 1..Len(keys) |->
            [ domain |-> keys[i], theta |-> doms[keys[i]].theta,
              stats |-> getDomainStats(doms, inh, keys[i]) ] ]

\* faulty variant: the descending sort
identifyWeaknessesDescending(doms, inh, count) ==
    LET sorted == SortedBy(DomainsWithAttempts(doms, inh), 0 - 1)
    IN  SubSeq(sorted, 1, Min(count, Len(sorted)))

\* identifyWeaknesses: sort((a, b) => a.theta - b.theta), slice(0, count)
identifyWeaknesses(doms, inh, count) ==
    LET sorted == SortedBy(DomainsWithAttempts(doms, inh), 1)
    IN  SubSeq(sorted, 1, Min(count, Len(sorted)))

\* identifyStrengths: sort((a, b) => b.theta - a.theta), slice(0, count)
identifyStrengths(doms, inh, count) ==
    LET sorted == SortedBy(DomainsWithAttempts(doms, inh), 0 - 1)
    IN  SubSeq(sorted, 1, Min(count, Len(sorted)))

\* getEstimatedSATScore: the domains of the section, their mean theta, the score
\* (a one-element sequence), or null (the empty sequence)
getEstimatedSATScore(doms, module) ==
    LET relevantDomains ==
            IF module = "math" THEN SubSeq(DomainUniverse, 1, 4)
            ELSE IF module = "english" THEN SubSeq(DomainUniverse, 5, 8)
            ELSE <<>>
        withData == SelectSeq(relevantDomains,
                              LAMBDA d : d \in DOMAIN doms /\ doms[d].attempts > 0)
        Total[i \in 0..Len(withData)] ==
            IF i = 0 THEN 0 ELSE Total[i - 1] + doms[withData[i]].theta
        avgTheta == Total[Len(withData)] \div Len(withData)
        score == 500 * One + avgTheta * 100
    IN  IF Len(withData) = 0 THEN <<>>
        ELSE << (Max(200 * One, Min(800 * One, score)) + (One \div 2)) \div One >>

\* Number.prototype.toFixed(1) of a number in thousandths: the text of its tenths
ToFixed1(x) == NumberToString(IF x = NaN THEN NaN ELSE (x + 50) \div 100)

\* faulty variant: splice(-n) takes the last n entries out of the array
ReceiverAfterSplice(arr, n) == SubSeq(arr, 1, Len(arr) - Min(n, Len(arr)))

\* slice(-n) copies the last n entries: the array it is called on stays
ReceiverAfterSlice(arr, n) == arr

\* getInsights, on the ten most recent responses
getInsights(doms, inh, arms, history, eps) ==
    LET recentQuestions ==
            SubSeq(history, Max(1, Len(history) - 9), Len(history))
        n == Len(recentQuestions)
        right == Cardinality({ i \in 1..n : recentQuestions[i].correct })
        Time[i \in 0..n] ==
            IF i = 0 THEN 0 ELSE Time[i - 1] + recentQuestions[i].responseTime
        withAttempts == { d \in DOMAIN arms :
                            /\ d \in DOMAIN doms
                            /\ doms[d].attempts > 0 }
    IN  [ weaknesses |-> identifyWeaknesses(doms, inh, 3),
          strengths |-> identifyStrengths(doms, inh, 3),
          recentAccuracy |-> ToFixed1(IF n > 0 THEN (right * 100 * One) \div n ELSE 0),
          avgResponseTime |-> ToFixed1(IF n > 0 THEN (Time[n] * One) \div n ELSE 0),
          domainInsights |->
              [ d \in withAttempts |->
                  [ theta |-> doms[d].theta,
                    accuracy |-> getDomainStats(doms, inh, d).accuracy,
                    attempts |-> doms[d].attempts,
                    avgReward |-> arms[d].avgReward,
                    level |-> thetaToLevel(doms[d].theta),
                    percentile |-> thetaToPercentile(doms[d].theta) ] ],
          totalQuestions |-> Len(history),
          explorationRate |-> ToFixed1(IF eps = NaN THEN NaN ELSE eps \div 10) ]

\* a query of the ability model: nothing is assigned
Answered(call, result) ==
    /\ lastQuery' = [ call |-> call, result |-> result ]
    /\ UNCHANGED <<domains, armStats, questionHistory, epsilon, localStorage,
                   inherited, clock, lastRecommend, tally, failing, cloud,
                   inflight, peer, mastery>>

\* the domains of the ranking profiles, and the names queries are asked about
RankedDomains == { DomainUniverse[i] : i \in 1..3 }
QueryDomains == RankedDomains \cup { "Unknown" } \cup ObjectPrototypeKeys

GetAbility ==
    \E domain \in QueryDomains :
        Answered(<<"getAbility", domain>>, getAbility(domain))

GetDomainStats ==
    \E domain \in QueryDomains :
        Answered(<<"getDomainStats", domain>>,
                 getDomainStats(domains, inherited, domain))

IdentifyWeaknesses ==
    \E count \in 0..4 :
        Answered(<<"identifyWeaknesses", count>>,
                 identifyWeaknesses(domains, inherited, count))

IdentifyStrengths ==
    \E count \in 0..4 :
        Answered(<<"identifyStrengths", count>>,
                 identifyStrengths(domains, inherited, count))

GetEstimatedSATScore ==
    \E module \in { "math", "english", "science" } :
        Answered(<<"getEstimatedSATScore", module>>,
                 getEstimatedSATScore(domains, module))

SelectDifficulty ==
    \E domain \in QueryDomains :
        Answered(<<"selectDifficulty", domain>>, selectDifficulty(domain))

GetInsights ==
    /\ lastQuery' = [ call |-> <<"getInsights">>,
                      result |-> getInsights(domains, inherited, armStats,
                                             questionHistory, epsilon) ]
    /\ questionHistory' = ReceiverAfterSlice(questionHistory, 10)
    /\ UNCHANGED <<domains, armStats, epsilon, localStorage, inherited, clock,
                   lastRecommend, tally, failing, cloud, inflight, peer, mastery>>

\* selectDomain: Math.random() < epsilon picks at random, else the arm with the
\* largest boosted Beta sample; the call is recorded with the numbers drawn
SelectDomain ==
    \E u \in RandomGrid :
        IF u * One < epsilon
        THEN \E r \in RandomGrid :
                 Answered(<<"selectDomain", "exploration", r>>,
                          RandomElementOf(ArmOrder, r))
        ELSE \E samples \in [ DOMAIN armStats -> BetaGrid ] :
                 Answered(<<"selectDomain", "thompson", samples>>,
                          ThompsonChoice(samples))

\* profiles to rank: three domains, each fresh or left by earlier responses
InitRanking ==
    /\ domains \in [ RankedDomains ->
                       { ProfileRecord(t) : t \in { 0 - One, 250 } }
                           \cup { FreshDomain } ]
    /\ armStats = initializeArms(<<>>, domains)
    /\ questionHistory = <<>>
    /\ epsilon = Epsilon0
    /\ failing = {}
    /\ localStorage = SaveIRT(EmptyStorage, domains)
    /\ inherited = [ k \in ObjectPrototypeKeys |-> {} ]
    /\ clock = 0
    /\ lastRecommend = NoRecommend
    /\ tally = ZeroTally
    /\ cloud = EmptyCloud
    /\ inflight = NoRequest
    /\ peer = FreshSession
    /\ lastQuery = NoQuery
    /\ mastery = DefaultMastery

NextQueries ==
    \/ SnapshotRespond
    \/ GetAbility
    \/ GetDomainStats
    \/ IdentifyWeaknesses
    \/ IdentifyStrengths
    \/ GetEstimatedSATScore
    \/ SelectDifficulty
    \/ GetInsights

SpecQueries == InitRanking /\ [][NextQueries]_vars

NextSelect == SelectDomain

SpecSelect == InitRanking /\ [][NextSelect]_vars

(***************************************************************************)
(* Properties                                                              *)
(***************************************************************************)

\* C1: for every bandit arm, in every state reachable by updateModel calls and resets,
\* alpha + beta = pulls + 2.
ArmPseudoCounts ==
    \A d \in DOMAIN armStats :
        armStats[d].alpha + armStats[d].beta = armStats[d].pulls + 2

\* an arm that recorded one right and one wrong response
ArmPulledBothWays ==
    \E d \in DOMAIN armStats :
        armStats[d].pulls = 2 /\ armStats[d].alpha = 2 /\ armStats[d].beta = 2

BatchBoundedAndDistinct ==
    LET questions == lastRecommend.questions
    IN  /\ Len(questions) <= lastRecommend.count
        /\ \A i, j \in 1..Len(questions) :
               questions[i].questionId = questions[j].questionId => i = j

\* a full batch of two whose first pick is the id the pool holds twice
BatchOfTwoWithRepeatedId ==
    /\ lastRecommend.count = 2
    /\ Len(lastRecommend.questions) = 2
    /\ lastRecommend.questions[1].questionId = 1
    /\ lastRecommend.questions[1].domain = lastRecommend.questions[2].domain

\* C4: an update that names a domain outside the configured universe changes no
\* domain, arm, epsilon or history entry (stated as the claim has it; the code
\* breaks it for names inherited from Object.prototype).
UnknownDomainIsNoOp ==
    [][ \A domain \in DomainInputs \ Domains, correct \in BOOLEAN :
          /\ \A input \in ResponseInputs :
                 UpdateModel(domain, correct, input[1], input[2])
                     => UNCHANGED <<domains, armStats, epsilon, questionHistory>>
          /\ \A input \in AbilityInputs :
                 UpdateAbility(domain, correct, input[1], input[2])
                     => UNCHANGED <<domains, armStats, epsilon, questionHistory>>
      ]_vars

\* 0.15 * 0.995^n in millionths
RECURSIVE EpsilonAfter(_)
EpsilonAfter(n) ==
    IF n = 0 THEN 150000 ELSE (EpsilonAfter(n - 1) * 995) \div 1000

CorrectWithinAttempts ==
    \A d \in DOMAIN domains :
        0 <= domains[d].correct /\ domains[d].correct <= domains[d].attempts

\* a domain answered once right and once wrong
OneRightOneWrong ==
    \E d \in DOMAIN domains : domains[d].attempts = 2 /\ domains[d].correct = 1

\* C7: updateModel adds exactly 1 to alpha (and nothing to beta) on a right answer
\* and exactly 1 to beta (and nothing to alpha) on a wrong one, whatever the
\* response time and reward; so alpha - 1 and beta - 1 count the right and the
\* wrong responses recorded on the arm.
BetaFollowsOutcomeOnly ==
    [][ /\ \A domain \in Domains, correct \in BOOLEAN, input \in ResponseInputs :
               UpdateModel(domain, correct, input[1], input[2]) =>
                   /\ armStats'[domain].alpha =
                          armStats[domain].alpha + (IF correct THEN 1 ELSE 0)
                   /\ armStats'[domain].beta =
                          armStats[domain].beta + (IF correct THEN 0 ELSE 1)
        /\ \A d \in Domains :
               /\ armStats'[d].alpha - 1 = tally'.right[d]
               /\ armStats'[d].beta - 1 = tally'.wrong[d]
      ]_vars

\* an arm with one right answer rewarded above 1 (negative response time) and one
\* wrong answer
ArmWithLargeRewardBothWays ==
    \E d \in DOMAIN armStats :
        armStats[d].alpha = 2 /\ armStats[d].beta = 2 /\ armStats[d].rewards > One

\* C8: the history never exceeds maxHistorySize; a recorded response is appended
\* at the end, and when the history is full its oldest event is evicted, the others
\* keeping their order.
HistoryIsBoundedFifo ==
    [][ /\ Len(questionHistory') <= maxHistorySize
        /\ \A domain \in Domains, correct \in BOOLEAN, input \in ResponseInputs :
               UpdateModel(domain, correct, input[1], input[2]) =>
                   LET event == [ domain |-> domain, correct |-> correct,
                                  difficulty |-> input[1], responseTime |-> input[2],
                                  reward |-> Reward(correct, input[2]),
                                  timestamp |-> clock ]
                       kept == IF Len(questionHistory) < maxHistorySize
                               THEN questionHistory
                               ELSE SubSeq(questionHistory, 2, Len(questionHistory))
                   IN  questionHistory' = kept \o <<event>>
      ]_vars

\* a full history whose first events have been evicted
HistoryFullAfterEviction ==
    /\ Len(questionHistory) = maxHistorySize
    /\ questionHistory[1].timestamp > 0
    /\ questionHistory[maxHistorySize].timestamp = clock - 1

\* C9: the recorded reward is 0 for a wrong answer and lies in [0.7, 1.0] for a
\* right one, for every response time (stated as the claim has it; the code lets
\* a negative response time through).
RewardWithinBounds ==
    \A i \in 1..Len(questionHistory) :
        LET event == questionHistory[i]
        IN  IF event.correct
            THEN 700 <= event.reward /\ event.reward <= 1000
            ELSE event.reward = 0

\* the difficulty band of an ability: Easy below -1, Hard from 0.25 on
DifficultyBand(theta) ==
    IF theta < -1000 THEN "E" ELSE IF theta >= 250 THEN "H" ELSE "M"

\* C10: selectDifficulty(domain) depends on theta(domain) only: Easy iff
\* theta < -1, Hard iff theta >= 0.25, Medium between; every recommended question
\* has the difficulty of its domain's band.
DifficultyFollowsTheta ==
    /\ \A domain \in DomainInputs :
           selectDifficulty(domain) = DifficultyBand(getAbility(domain))
    /\ \A i \in 1..Len(lastRecommend.questions) :
           lastRecommend.questions[i].difficulty =
               DifficultyBand(getAbility(lastRecommend.questions[i].domain))

\* a Hard question recommended for a domain whose ability is exactly 0.25, while
\* the other domain sits exactly on -1 (still Medium)
HardRecommendedAtThreshold ==
    \E i \in 1..Len(lastRecommend.questions) :
        /\ lastRecommend.questions[i].difficulty = "H"
        /\ getAbility(lastRecommend.questions[i].domain) = 250
        /\ \E d \in Domains : getAbility(d) = -1000 /\ selectDifficulty(d) = "M"

\* the positions of a (domain, difficulty) pair in a sequence of questions
PairPositions(questions, domain, difficulty) ==
    { i \in 1..Len(questions) :
        questions[i].domain = domain /\ questions[i].difficulty = difficulty }

\* C11: recommendQuestions returns after its count draws, for every pool (the empty
\* one included), with at most count questions; a draw without a surviving candidate
\* adds nothing, so for every (domain, difficulty) pair the batch holds no more
\* questions of the pair than the pool holds distinct ids of the pair.
BatchWithinPoolPairs ==
    LET questions == lastRecommend.questions
        pool == lastRecommend.pool
    IN  /\ Len(questions) <= lastRecommend.count
        /\ \A domain \in Domains, difficulty \in DOMAIN difficultyMap :
               Cardinality(PairPositions(questions, domain, difficulty))
                   <= Cardinality({ pool[j].questionId :
                                      j \in PairPositions(pool, domain, difficulty) })

\* two draws were asked of the mixed pool, the first domain is in the hard band (the
\* pool has one hard question of it) and the second in the medium band (the pool
\* has two): the batch of that one hard question means both draws chose the first
\* domain and the second draw found no surviving candidate
ExhaustedPairSkipsDraw ==
    /\ lastRecommend.count = 2
    /\ lastRecommend.pool = PoolMixed
    /\ lastRecommend.questions = << Question(4, DomainOrder[1], "H") >>
    /\ selectDifficulty(DomainOrder[1]) = "H"
    /\ selectDifficulty(DomainOrder[2]) = "M"

\* localStorage holds a complete save of the engine as it is
StoreHoldsSnapshot ==
    localStorage = SaveRL(SaveIRT(localStorage, domains), armStats, questionHistory,
                          epsilon)

Restorable(key) ==
    IF localStorage[key] = <<>> THEN FALSE
    ELSE IF key = "sat_rl_epsilon" THEN ParseFloat(localStorage[key][1]) # NaN
    ELSE localStorage[key][1].wellFormed

\* C13: when the engine is constructed, each entry of the store (abilities, arms,
\* history, epsilon) is restored on its own: one that is present and parses is
\* restored whatever the state of the others, one that is missing or does not parse
\* leaves its part at the defaults of construction.
EntriesLoadIndependently ==
    [][ Reload =>
          /\ domains' =
                 IF Restorable("sat_irt_model")
                 THEN ParseObject(localStorage.sat_irt_model[1])
                 ELSE [ d \in Domains |-> FreshDomain ]
          /\ armStats' =
                 IF Restorable("sat_rl_arms")
                 THEN ParseObject(localStorage.sat_rl_arms[1])
                 ELSE [ d \in Domains |-> FreshArm ]
          /\ questionHistory' =
                 IF Restorable("sat_rl_history")
                 THEN ParseHistory(localStorage.sat_rl_history[1])
                 ELSE <<>>
          /\ epsilon' =
                 IF Restorable("sat_rl_epsilon")
                 THEN ParseFloat(localStorage.sat_rl_epsilon[1])
                 ELSE Epsilon0
      ]_vars

\* C14: a save that fails changes nothing in memory: while setItem throws,
\* updateModel, updateAbility and both resets leave exactly the abilities, arms,
\* history and epsilon they leave when the save succeeds, in every state, those
\* after earlier failed saves included.
FailedSaveKeepsUpdate ==
    [][ failing # {} =>
          /\ \A r \in SnapshotResponses :
                 UpdateModel(r[1], r[2], r[3], r[4]) =>
                     /\ domains' = DomainsAfterUpdate(domains, r[1], r[2], r[3],
                                                      defaultDiscrimination)
                     /\ armStats' =
                            [ armStats EXCEPT ![r[1]] =
                                ArmAfterUpdate(@, r[2], Reward(r[2], r[4])) ]
                     /\ questionHistory' =
                            HistoryAfterPush(questionHistory,
                                             HistoryEvent(r[1], r[2], r[3], r[4], clock))
                     /\ epsilon' = epsilon
          /\ \A domain \in Domains, correct \in BOOLEAN, input \in AbilityInputs :
                 UpdateAbility(domain, correct, input[1], input[2]) =>
                     domains' = DomainsAfterUpdate(domains, domain, correct, input[1],
                                                   input[2])
          /\ ResetIRT => domains' = [ d \in Domains |-> FreshDomain ]
          /\ ResetRL =>
                 /\ armStats' = [ d \in Domains |-> FreshArm ]
                 /\ questionHistory' = <<>>
                 /\ epsilon' = Epsilon0
      ]_vars

\* two responses were recorded in memory while every save failed: the store is
\* still empty
TwoResponsesNoneSaved ==
    /\ failing = StorageKeys
    /\ localStorage = EmptyStorage
    /\ tally.responses = 2
    /\ Len(questionHistory) = 2
    /\ \E d \in Domains : armStats[d].pulls > 0 /\ domains[d].attempts > 0

\* C15: no response is recorded before the load of the user's snapshot has finished,
\* and a load from Firestore never overwrites what a recorded response produced:
\* every response the engine has recorded since its construction is still counted
\* in the arm and in the ability of its domain.
AcceptedResponsesKept ==
    \A d \in Domains :
        /\ armStats[d].pulls >= tally.right[d] + tally.wrong[d]
        /\ domains[d].attempts >= tally.right[d] + tally.wrong[d]

\* C16: every call that changes the engine saves afterwards: between calls, no save
\* having failed, an engine constructed on the store would hold the abilities,
\* arms, history and epsilon this engine holds in memory.
StoreMatchesMemory ==
    failing = {} =>
        /\ ConstructedDomains(localStorage) = domains
        /\ ConstructedRL(domains, localStorage) =
               [ armStats |-> armStats, questionHistory |-> questionHistory,
                 epsilon |-> epsilon ]

\* the engine a construction on the store would give
Persisted ==
    LET doms == ConstructedDomains(localStorage)
        rl == ConstructedRL(doms, localStorage)
    IN  [ domains |-> doms, armStats |-> rl.armStats,
          questionHistory |-> rl.questionHistory, epsilon |-> rl.epsilon ]

\* C17: two sessions writing one store are never merged: the store holds the
\* complete engine of one session (the one that saved last), with nothing of the
\* updates made only in the other.
StoreIsOneSession ==
    \/ Persisted = [ domains |-> domains, armStats |-> armStats,
                     questionHistory |-> questionHistory, epsilon |-> epsilon ]
    \/ Persisted = [ domains |-> peer.domains, armStats |-> peer.armStats,
                     questionHistory |-> peer.questionHistory,
                     epsilon |-> peer.epsilon ]

\* C18: a policy with no arm is never in use: construction over an empty topic
\* universe fails, so an engine on which recommendQuestions (hence selectDomain)
\* has run has at least one arm.
NoEngineWithoutArms == tally.recommends > 0 => DOMAIN armStats # {}

\* C19: after any sequence of mastery updates, correct or not, with learn and
\* slip rates in [0, 1] and a starting mastery in [0, 1], the mastery of every
\* skill is in [0, 1].
MasteryInUnitInterval ==
    \A skill \in Skills : mastery[skill].score >= 0 /\ mastery[skill].score <= One

\* an incorrect answer then a correct one took a skill to the upper end
MasteryReachesOne ==
    \E skill \in Skills :
        /\ mastery[skill].calls >= 2
        /\ mastery[skill].streak = 1
        /\ mastery[skill].learn = One
        /\ mastery[skill].slip > 0
        /\ mastery[skill].score = One

\* C20: a correct answer on a skill whose learn rate is positive never lowers
\* the mastery of that skill, so the mastery is non-decreasing from call to call
\* along a run of correct answers.
CorrectNeverLowers ==
    [][ \A skill \in Skills :
            (QuickUpdate(skill, TRUE) /\ mastery[skill].learn > 0)
                => mastery'[skill].score >= mastery[skill].score ]_vars

\* a run of two correct answers, short of full mastery
CorrectRunBelowOne ==
    \E skill \in Skills :
        /\ mastery[skill].streak >= 2
        /\ mastery[skill].learn > 0
        /\ mastery[skill].score > PriorMastery
        /\ mastery[skill].score < One

\* C21: the parameters of a skill differ from the shared defaults only if the
\* skill has at least 5 reviews and the user at least 20 over all skills; in
\* every other case (no review at all included) the defaults are in force.
DefaultsUnlessEnoughData ==
    \A skill \in Skills :
        (mastery[skill].calls < MinSkillReviews \/ TotalReviews < MinTotalReviews)
            => /\ mastery[skill].prior = PriorMastery
               /\ mastery[skill].learn = DefaultLearn
               /\ mastery[skill].slip = DefaultSlip
               /\ mastery[skill].guess = DefaultGuess
               /\ ~mastery[skill].fitting

\* the user has 20 reviews, one skill is fitted and the other, one review short
\* of five, is not
OneSkillFitted ==
    \E fitted \in Skills, short \in Skills :
        /\ mastery[short].calls = MinSkillReviews - 1
        /\ TotalReviews >= MinTotalReviews
        /\ mastery[fitted].iterations > 0
        /\ ~mastery[fitted].fitting
        /\ mastery[fitted].learn # DefaultLearn

\* C22: a fit runs at most maxIterations iterations (the limit it was called
\* with), stops before the limit exactly when its last iteration changed every
\* parameter by less than the tolerance, and always comes to an end.
FitTerminates ==
    /\ [](\A skill \in Skills :
            /\ mastery[skill].iterations <= mastery[skill].limit
            /\ mastery[skill].limit <= maxIterations
            /\ (mastery[skill].iterations > 0
                 /\ mastery[skill].iterations < mastery[skill].limit)
                    => (mastery[skill].fitting
                            <=> ~(mastery[skill].change < tolerance)))
    /\ \A skill \in Skills : mastery[skill].fitting ~> ~mastery[skill].fitting

\* a fit that converged before the limit, and one that ran to the default limit
FitStoppedBothWays ==
    \E early \in Skills, late \in Skills :
        /\ ~mastery[early].fitting
        /\ mastery[early].iterations \in 1..(mastery[early].limit - 1)
        /\ mastery[early].change < tolerance
        /\ ~mastery[late].fitting
        /\ mastery[late].iterations = maxIterations
        /\ ~(mastery[late].change < tolerance)

\* C23: updateAbility on a known domain changes the record of that domain only:
\* its attempts grows by 1, its correct grows by 1 for a right answer and stays
\* for a wrong one; every other domain's record and the set of domains stay.
UpdateAbilityTouchesOneDomain ==
    [][ \A domain \in Domains, correct \in BOOLEAN, input \in AbilityInputs :
            (UpdateAbility(domain, correct, input[1], input[2])
             /\ domain \in DOMAIN domains)
                => /\ DOMAIN domains' = DOMAIN domains
                   /\ domains'[domain].attempts = domains[domain].attempts + 1
                   /\ domains'[domain].correct =
                          domains[domain].correct + (IF correct THEN 1 ELSE 0)
                   /\ \A other \in DOMAIN domains \ {domain} :
                          domains'[other] = domains[other] ]_vars

\* a right and a wrong answer given directly to updateAbility on one domain,
\* the other domain untouched
OneDomainUpdatedTwice ==
    \E domain \in Domains :
        /\ tally.responses = 0
        /\ domains[domain].attempts = 2
        /\ domains[domain].correct = 1
        /\ \A other \in Domains \ {domain} : domains[other] = FreshDomain

QueriesChangeNothing ==
    [][ lastQuery' # lastQuery
            => UNCHANGED <<domains, armStats, epsilon, questionHistory, inherited,
                           localStorage>> ]_vars

\* getInsights has answered on a history of two responses
InsightsAnswered ==
    /\ lastQuery.call = <<"getInsights">>
    /\ lastQuery.result.totalQuestions = 2
    /\ Len(questionHistory) = 2

\* `result` is a ranking of `count` domains by theta, ascending for sign = 1 and
\* descending for sign = -1: as many entries as asked for or as there are
\* domains with attempts, each a different domain with attempts and its theta,
\* in order, and no domain left out that would come before one returned
Ranked(result, count, sign) ==
    LET attempted == { d \in DOMAIN domains : domains[d].attempts > 0 }
        returned == { result[i].domain : i \in 1..Len(result) }
    IN  /\ Len(result) = Min(count, Cardinality(attempted))
        /\ Cardinality(returned) = Len(result)
        /\ returned \subseteq attempted
        /\ \A i \in 1..Len(result) :
               result[i].theta = domains[result[i].domain].theta
        /\ \A i \in 1..(Len(result) - 1) :
               sign * result[i].theta <= sign * result[i + 1].theta
        /\ \A d \in attempted \ returned, i \in 1..Len(result) :
               ~(sign * domains[d].theta < sign * result[i].theta)

\* C26: identifyWeaknesses(count) returns min(count, number of domains with
\* attempts) domains, all with attempts, in non-decreasing theta order, none of
\* the omitted domains with attempts having a lower theta than a returned one;
\* identifyStrengths(count) the same with the order reversed.
WeakestAndStrongestRanked ==
    [][ lastQuery' # lastQuery
            => /\ lastQuery'.call[1] = "identifyWeaknesses"
                    => Ranked(lastQuery'.result, lastQuery'.call[2], 1)
               /\ lastQuery'.call[1] = "identifyStrengths"
                    => Ranked(lastQuery'.result, lastQuery'.call[2], 0 - 1) ]_vars

\* the two weakest of three domains with attempts, of different abilities
TwoWeakestOfThree ==
    /\ lastQuery.call = <<"identifyWeaknesses", 2>>
    /\ Len(lastQuery.result) = 2
    /\ lastQuery.result[1].theta < lastQuery.result[2].theta
    /\ \A d \in DOMAIN domains : domains[d].attempts > 0

\* C27: in its Thompson-sampling branch selectDomain returns a configured domain
\* whose boosted sample (Beta sample plus weakness bonus) is the largest, the
\* first such domain in the order of the arms; it returns neither null nor a
\* name that is no domain.
ThompsonPicksFirstLargest ==
    [][ (lastQuery' # lastQuery /\ lastQuery'.call[2] = "thompson")
            => LET samples == lastQuery'.call[3]
                   chosen == lastQuery'.result
                   position(d) == CHOOSE i \in 1..Len(ArmOrder) : ArmOrder[i] = d
               IN  /\ chosen \in DOMAIN domains
                   /\ chosen \in DOMAIN armStats
                   /\ \A d \in DOMAIN armStats :
                          /\ BoostedSample(d, samples[d])
                                 <= BoostedSample(chosen, samples[chosen])
                          /\ position(d) < position(chosen)
                                 => BoostedSample(d, samples[d])
                                        < BoostedSample(chosen, samples[chosen]) ]_vars

\* three fresh domains drew the same sample: the first of them was returned
TieGoesToFirst ==
    /\ lastQuery.call = <<"selectDomain", "thompson",
                          [ d \in DOMAIN armStats |-> 500 ]>>
    /\ \A d \in DOMAIN domains : domains[d] = FreshDomain
    /\ lastQuery.result = DomainUniverse[1]

\* C28: in every state reached by responses and resets, every arm's avgReward is
\* its rewards divided by max(pulls, 1); an arm that was never pulled has
\* avgReward 0.
AverageIsRewardsOverPulls ==
    \A d \in DOMAIN armStats :
        /\ armStats[d].avgReward = armStats[d].rewards \div Max(armStats[d].pulls, 1)
        /\ armStats[d].pulls = 0 => armStats[d].avgReward = 0

\* one arm was pulled twice with different rewards while another was never pulled
AveragedTwoRewards ==
    \E d, e \in DOMAIN armStats :
        /\ armStats[d].pulls = 2
        /\ armStats[d].rewards = 2 * One - (RewardSpeed \div 2)
        /\ armStats[d].avgReward = One - (RewardSpeed \div 4)
        /\ armStats[e] = FreshArm

\* C29: after any responses and resets of the selection policy on a fresh
\* engine, every domain's arm has as many pulls as the domain has attempts, and
\* its alpha less one is the domain's number of correct answers.
ArmsMatchAbilities ==
    \A d \in (DOMAIN armStats) \cap (DOMAIN domains) :
        /\ armStats[d].pulls = domains[d].attempts
        /\ armStats[d].alpha - PriorAlpha = domains[d].correct

\* C30: the arms are always exactly the domains fixed at construction, and so
\* are the domains of the ability model: no update, reset or load of a
\* snapshot, from localStorage or Firestore and whatever it holds, adds or
\* removes one.
ArmsAreTheDomains ==
    /\ DOMAIN armStats = Domains
    /\ DOMAIN domains = Domains

====
